---- MODULE Spec2Model ----
(***************************************************************************)
(* dapt: a declarative apt package-state reconciler (src/dapt.py).         *)
(*                                                                         *)
(* The program is a one-shot command line tool with three commands, init,  *)
(* plan and apply.  Each invocation runs to completion, so each command is *)
(* one action.  The durable state is two files, state.json and plan.json.  *)
(* The apt cache is an external collaborator: every apply opens it afresh  *)
(* (AptWrapper.refresh), so what it holds is an input of the apply action. *)
(* The files are written by this program only and filesystem writes are    *)
(* taken to succeed (no I/O fault, no corrupt JSON).                       *)
(***************************************************************************)
EXTENDS Naturals, Sequences, FiniteSets

\* ---- bounds ------------------------------------------------------------
NumPkgs == 3
MaxDecl == 2

PkgName == <<"a", "b", "c", "d", "e", "f">>
Packages == {PkgName[i] : i \in 1..NumPkgs}

SeqsUpTo(S, n) == UNION {[1..k -> S] : k \in 0..n}

\* ---- State.build_user_declared_state ---------------------------------------
\* A line of the configuration file, after line.strip(), by the first test
\* of the reader it meets:
\*   "blank"      not line                      "comment"  startswith("#")
\*   "separator"  startswith("---")             "header"   endswith(":")
\*   "item"       startswith("-"), text is line.lstrip("-").strip()
\*   "dash"       startswith("-") and nothing after the dashes
\*   "other"      anything else
SkippedKinds == {"blank", "comment", "separator", "header", "dash", "other"}
ConfigLines ==
    {[kind |-> "item", text |-> p] : p \in Packages}
        \cup {[kind |-> k, text |-> ""] : k \in SkippedKinds}

\* A configuration file of at most MaxDecl lines.
ConfigSources == SeqsUpTo(ConfigLines, MaxDecl)

\* for line in f: ... state.append(item); nothing is deduplicated.
RECURSIVE State_build_user_declared_state(_)
State_build_user_declared_state(config) ==
    IF config = <<>> THEN <<>>
    ELSE LET state == State_build_user_declared_state(
                          SubSeq(config, 1, Len(config) - 1))
             line == config[Len(config)]
         IN IF line.kind = "item" /\ line.text # ""
            THEN Append(state, line.text)
            ELSE state

\* What the declared-state reader can return.
DeclaredStates == {State_build_user_declared_state(c) : c \in ConfigSources}

\* ---- values ------------------------------------------------------------
EmptyPlan == [install |-> <<>>, remove |-> <<>>]

\* A file: whether os.path.exists(path), and the JSON document it holds.
File(data) == [exists |-> TRUE, data |-> data]
NoStateFile == [exists |-> FALSE, data |-> <<>>]
NoPlanFile == [exists |-> FALSE, data |-> EmptyPlan]

NoPkg == "-"                \* a backend call that names no package

\* The result of a list operation: the list, or ValueError raised
\* (list.remove(x) with x not in the list).
Returned(list) == [raised |-> FALSE, list |-> list]
ValueError == [raised |-> TRUE, list |-> <<>>]

\* out.op: which composition produced out ("plan": patch of the two diffs,
\* with done set; "patch": patch of a drawn plan).
NoOut == [done |-> FALSE, op |-> "none", plan |-> EmptyPlan,
          patched |-> Returned(<<>>)]

SetOf(s) == {s[i] : i \in 1..Len(s)}
Contains(s, x) == \E i \in 1..Len(s) : s[i] = x
NoDup(s) == \A i, j \in 1..Len(s) : s[i] = s[j] => i = j

VARIABLES
    stateFile,   \* state.json: the persisted list of packages
    planFile,    \* plan.json: [install |-> list, remove |-> list]
    declared,    \* declared_state as parsed by the most recent plan
    run,         \* the most recent invocation: its command, its outcome
                 \* and the backend calls it made, in order
    inA, inB,    \* inputs of the pure functions (specification PureSpec)
    out          \* their results

vars == <<stateFile, planFile, declared, run, inA, inB, out>>
sysVars == <<stateFile, planFile, declared, run>>
pureVars == <<inA, inB, out>>

\* ---- State.diff --------------------------------------------------------
State_diff_in(desired, current) ==
    SelectSeq(desired, LAMBDA item : Contains(current, item))

State_diff_skipfirst(desired, current) ==
    SelectSeq(desired, LAMBDA item : ~Contains(Tail(current), item))

State_diff_nofilter(desired, current) == desired

State_diff(desired, current) ==
    SelectSeq(desired, LAMBDA item : ~Contains(current, item))

\* ---- State.patch -------------------------------------------------------
\* list.remove(x): drops the first occurrence of x; raises ValueError when
\* x is not in the list.
ListRemove(s, x) ==
    IF ~Contains(s, x) THEN ValueError
    ELSE LET i == CHOOSE k \in 1..Len(s) :
                      s[k] = x /\ \A j \in 1..(k - 1) : s[j] # x
         IN Returned(SubSeq(s, 1, i - 1) \o SubSeq(s, i + 1, Len(s)))

\* for pkg in plan["remove"]: new.remove(pkg)
RECURSIVE RemoveAll(_, _)
RemoveAll(new, pkgs) ==
    IF pkgs = <<>> THEN Returned(new)
    ELSE LET r == ListRemove(new, Head(pkgs))
         IN IF r.raised THEN ValueError ELSE RemoveAll(r.list, Tail(pkgs))

\* list(dict.fromkeys(new)): first occurrences, in order.
RECURSIVE DictFromKeys(_)
DictFromKeys(s) ==
    IF s = <<>> THEN <<>>
    ELSE LET init == DictFromKeys(SubSeq(s, 1, Len(s) - 1))
             last == s[Len(s)]
         IN IF Contains(init, last) THEN init ELSE Append(init, last)

State_patch_keep(state, plan) ==
    Returned(DictFromKeys(state \o plan.install))

State_patch_nodedupe(state, plan) ==
    RemoveAll(state \o plan.install, plan.remove)

State_patch_noinstall(state, plan) ==
    LET new == RemoveAll(state, plan.remove)
    IN IF new.raised THEN ValueError ELSE Returned(DictFromKeys(new.list))

\* keeps the last occurrence of each entry instead of the first
RECURSIVE LastOccurrences(_)
LastOccurrences(s) ==
    IF s = <<>> THEN <<>>
    ELSE LET rest == LastOccurrences(Tail(s))
         IN IF Contains(rest, Head(s)) THEN rest ELSE <<Head(s)>> \o rest

State_patch_lastocc(state, plan) ==
    LET new == RemoveAll(state \o plan.install, plan.remove)
    IN IF new.raised THEN ValueError ELSE Returned(LastOccurrences(new.list))

State_patch(state, plan) ==
    LET new == RemoveAll(state \o plan.install, plan.remove)
    IN IF new.raised THEN ValueError ELSE Returned(DictFromKeys(new.list))

\* ---- AptWrapper.commit_changes -------------------------------------------
Call(op, pkg, ret) == [op |-> op, pkg |-> pkg, ret |-> ret]

\* for pkg in changes["install"]: ... ; result is [calls, found]
RECURSIVE MarkInstalls(_, _, _)
MarkInstalls(pkgs, cache, calls) ==
    IF pkgs = <<>> THEN [calls |-> calls, found |-> TRUE]
    ELSE LET pkg == Head(pkgs) IN
         IF pkg \notin cache
         THEN [calls |-> Append(calls, Call("Exists", pkg, FALSE)),
               found |-> FALSE]
         ELSE MarkInstalls(Tail(pkgs), cache,
                  calls \o <<Call("Exists", pkg, TRUE),
                             Call("MarkInstall", pkg, TRUE)>>)

RECURSIVE MarkDeletes_always(_, _, _, _)
MarkDeletes_always(pkgs, cache, installed, calls) ==
    IF pkgs = <<>> THEN [calls |-> calls, found |-> TRUE]
    ELSE LET pkg == Head(pkgs) IN
         IF pkg \notin cache
         THEN [calls |-> Append(calls, Call("Exists", pkg, FALSE)),
               found |-> FALSE]
         ELSE MarkDeletes_always(Tail(pkgs), cache, installed,
                  calls \o <<Call("Exists", pkg, TRUE),
                             Call("IsInstalled", pkg, pkg \in installed),
                             Call("MarkDelete", pkg, TRUE)>>)

\* for pkg in changes["remove"]: ...
RECURSIVE MarkDeletes(_, _, _, _)
MarkDeletes(pkgs, cache, installed, calls) ==
    IF pkgs = <<>> THEN [calls |-> calls, found |-> TRUE]
    ELSE LET pkg == Head(pkgs) IN
         IF pkg \notin cache
         THEN [calls |-> Append(calls, Call("Exists", pkg, FALSE)),
               found |-> FALSE]
         ELSE IF pkg \in installed
         THEN MarkDeletes(Tail(pkgs), cache, installed,
                  calls \o <<Call("Exists", pkg, TRUE),
                             Call("IsInstalled", pkg, TRUE),
                             Call("MarkDelete", pkg, TRUE)>>)
         ELSE MarkDeletes(Tail(pkgs), cache, installed,
                  calls \o <<Call("Exists", pkg, TRUE),
                             Call("IsInstalled", pkg, FALSE)>>)

AptWrapper_commit_changes_commitanyway(changes, cache, installed, commitOk) ==
    LET ins == MarkInstalls(changes.install, cache, <<>>)
        rem == MarkDeletes(changes.remove, cache, installed, ins.calls)
    IN [calls |-> Append(rem.calls, Call("Commit", NoPkg, commitOk)),
        result |-> IF commitOk THEN "None" ELSE "exit1"]

AptWrapper_commit_changes_swallow(changes, cache, installed, commitOk) ==
    LET ins == MarkInstalls(changes.install, cache, <<>>)
        rem == MarkDeletes(changes.remove, cache, installed, ins.calls)
    IN IF ~ins.found THEN [calls |-> ins.calls, result |-> "False"]
       ELSE IF ~rem.found THEN [calls |-> rem.calls, result |-> "False"]
       ELSE [calls |-> Append(rem.calls, Call("Commit", NoPkg, commitOk)),
             result |-> "None"]

\* result: "False" (return False), "None" (fell off the end) or "exit1"
\* (sys.exit(1) in the except branch of cache.commit()).
AptWrapper_commit_changes(changes, cache, installed, commitOk) ==
    LET ins == MarkInstalls(changes.install, cache, <<>>)
        rem == MarkDeletes(changes.remove, cache, installed, ins.calls)
    IN IF ~ins.found THEN [calls |-> ins.calls, result |-> "False"]
       ELSE IF ~rem.found THEN [calls |-> rem.calls, result |-> "False"]
       ELSE [calls |-> Append(rem.calls, Call("Commit", NoPkg, commitOk)),
             result |-> IF commitOk THEN "None" ELSE "exit1"]

\* ---- outcomes of an invocation -------------------------------------------
\* "done": main returned; "exit0"/"exit1": sys.exit(0)/sys.exit(1);
\* "ValueError": an uncaught exception ends the process with a traceback.
ExitStatus(outcome) == IF outcome \in {"done", "exit0"} THEN 0 ELSE 1

Run(cmd, outcome, calls) ==
    [cmd |-> cmd, outcome |-> outcome, calls |-> calls]

\* ---- DApt.init -----------------------------------------------------------
DApt_init_overwrite ==
    /\ stateFile' = File(<<>>)
    /\ run' = Run("init", "done", <<>>)
    /\ UNCHANGED <<planFile, declared, pureVars>>

DApt_init ==
    /\ IF stateFile.exists
       THEN /\ run' = Run("init", "exit0", <<>>)
            /\ UNCHANGED stateFile
       ELSE /\ stateFile' = File(<<>>)
            /\ run' = Run("init", "done", <<>>)
    /\ UNCHANGED <<planFile, declared, pureVars>>

\* ---- DApt.plan -----------------------------------------------------------
DApt_plan ==
    \E declared_state \in DeclaredStates :
        /\ declared' = declared_state
        /\ IF ~stateFile.exists
           THEN /\ run' = Run("plan", "exit1", <<>>)
                /\ UNCHANGED planFile
           ELSE /\ planFile' = File(
                     [install |-> State_diff(declared_state, stateFile.data),
                      remove  |-> State_diff(stateFile.data, declared_state)])
                /\ run' = Run("plan", "done", <<>>)
        /\ UNCHANGED <<stateFile, pureVars>>

\* ---- DApt.apply ----------------------------------------------------------
\* `not plan` for the dict read from plan.json: true for the empty dict only.
PyNot(plan) == DOMAIN plan = {}

PlanPkgs == SetOf(planFile.data.install) \cup SetOf(planFile.data.remove)

DApt_apply_result_noplancheck(cache, installed, commitOk) ==
    IF ~stateFile.exists
    THEN [outcome |-> "exit1", calls |-> <<>>, state |-> stateFile]
    ELSE LET c == AptWrapper_commit_changes(planFile.data, cache, installed,
                                            commitOk)
             new_state == State_patch(stateFile.data, planFile.data)
         IN IF c.result = "exit1"
            THEN [outcome |-> "exit1", calls |-> c.calls, state |-> stateFile]
            ELSE IF new_state.raised
            THEN [outcome |-> "ValueError", calls |-> c.calls,
                  state |-> stateFile]
            ELSE [outcome |-> "done", calls |-> c.calls,
                  state |-> File(new_state.list)]

\* [outcome, calls, state] of one apply, given what the apt cache holds.
DApt_apply_result(cache, installed, commitOk) ==
    IF ~stateFile.exists
    THEN [outcome |-> "exit1", calls |-> <<>>, state |-> stateFile]
    ELSE IF ~planFile.exists
    THEN [outcome |-> "exit1", calls |-> <<>>, state |-> stateFile]
    ELSE IF PyNot(planFile.data)
    THEN [outcome |-> "exit0", calls |-> <<>>, state |-> stateFile]
    ELSE LET c == AptWrapper_commit_changes(planFile.data, cache, installed,
                                            commitOk)
             new_state == State_patch(stateFile.data, planFile.data)
         IN IF c.result = "exit1"
            THEN [outcome |-> "exit1", calls |-> c.calls, state |-> stateFile]
            ELSE IF new_state.raised
            THEN [outcome |-> "ValueError", calls |-> c.calls,
                  state |-> stateFile]
            ELSE [outcome |-> "done", calls |-> c.calls,
                  state |-> File(new_state.list)]

DApt_apply_consume ==
    \E missing \in SUBSET PlanPkgs :
    \E installed \in SUBSET (SetOf(planFile.data.remove) \ missing) :
    \E commitOk \in IF missing = {} THEN BOOLEAN ELSE {TRUE} :
        LET r == DApt_apply_result(Packages \ missing, installed, commitOk)
        IN /\ stateFile' = r.state
           /\ run' = Run("apply", r.outcome, r.calls)
           /\ planFile' = IF r.outcome = "done" THEN NoPlanFile ELSE planFile
           /\ UNCHANGED <<declared, pureVars>>

\* The cache is any set of known packages, any of them installed.  Only the
\* packages the plan names are looked up (`pkg not in cache`), is_installed
\* is read for the remove entries only, and cache.commit() is reached only
\* when none is missing, so the choice ranges over those.
DApt_apply ==
    \E missing \in SUBSET PlanPkgs :
    \E installed \in SUBSET (SetOf(planFile.data.remove) \ missing) :
    \E commitOk \in IF missing = {} THEN BOOLEAN ELSE {TRUE} :
        LET r == DApt_apply_result(Packages \ missing, installed, commitOk)
        IN /\ stateFile' = r.state
           /\ run' = Run("apply", r.outcome, r.calls)
           /\ UNCHANGED <<planFile, declared, pureVars>>

\* ---- the program ---------------------------------------------------------
NoRun == Run("none", "done", <<>>)

SysInit ==
    /\ stateFile = NoStateFile
    /\ planFile = NoPlanFile
    /\ declared = <<>>
    /\ run = NoRun

Init ==
    /\ SysInit
    /\ inA = <<>> /\ inB = <<>> /\ out = NoOut

Next == DApt_init \/ DApt_plan \/ DApt_apply

Spec == Init /\ [][Next]_vars

\* ---- the pure functions on drawn inputs ----------------------------------
PureInit ==
    /\ SysInit
    /\ inA \in DeclaredStates
    /\ inB \in DeclaredStates
    /\ out = NoOut

\* plan = {install: diff(B, A), remove: diff(A, B)}; patch(A, plan)
PureApply ==
    /\ out.op = "none"
    /\ LET plan == [install |-> State_diff(inB, inA),
                    remove  |-> State_diff(inA, inB)]
       IN out' = [done |-> TRUE, op |-> "plan", plan |-> plan,
                  patched |-> State_patch(inA, plan)]
    /\ UNCHANGED <<inA, inB, sysVars>>

\* patch(A, plan) for a plan read from plan.json: install = B, any remove
PurePatch ==
    /\ out.op = "none"
    /\ \E remove \in DeclaredStates :
         LET plan == [install |-> inB, remove |-> remove]
         IN out' = [done |-> FALSE, op |-> "patch", plan |-> plan,
                    patched |-> State_patch(inA, plan)]
    /\ UNCHANGED <<inA, inB, sysVars>>

PureNext == PureApply \/ PurePatch

PureSpec == PureInit /\ [][PureNext]_vars

\* ---- properties ----------------------------------------------------------
\* A Commit call that returned (ok = TRUE) or raised (ok = FALSE).
Committed(calls, ok) ==
    \E i \in 1..Len(calls) : calls[i].op = "Commit" /\ calls[i].ret = ok

\* An existence check that failed: `pkg not in cache`.
NotFound(calls) ==
    \E i \in 1..Len(calls) : calls[i].op = "Exists" /\ ~calls[i].ret

\* C1: for duplicate-free A and B, Patch(A, {install: Diff(B, A), remove:
\* Diff(A, B)}) returns a snapshot with the same set of members as B.
C1_PatchOfDiffsConverges ==
    (out.done /\ NoDup(inA) /\ NoDup(inB)) =>
        (~out.patched.raised /\ SetOf(out.patched.list) = SetOf(inB))

C1_Witness ==
    /\ out.done
    /\ inA = <<"a", "c">>
    /\ inB = <<"a", "b">>
    /\ out.plan = [install |-> <<"b">>, remove |-> <<"c">>]
    /\ out.patched = Returned(<<"a", "b">>)

\* C2: a plan against declared state D followed by an apply in which every
\* planned package exists and Commit succeeds leaves a persisted state with
\* the same members as D.
C2_PlanThenApplyConverges ==
    [][(/\ run.cmd = "plan" /\ run.outcome = "done"
        /\ run'.cmd = "apply"
        /\ ~NotFound(run'.calls) /\ Committed(run'.calls, TRUE))
       => (/\ run'.outcome = "done"
           /\ SetOf(stateFile'.data) = SetOf(declared))]_vars

\* declared = [a, b] over persisted = [a, c]: install [b], remove [c].
C2_Witness ==
    /\ run.cmd = "apply" /\ run.outcome = "done"
    /\ Committed(run.calls, TRUE)
    /\ declared = <<"a", "b">>
    /\ planFile.data = [install |-> <<"b">>, remove |-> <<"c">>]
    /\ stateFile.data = <<"a", "b">>

\* C3: an apply of an empty plan (install = [], remove = []) makes no
\* backend call, exits successfully and leaves the persisted state unchanged.
C3_EmptyPlanTouchesNothing ==
    [][(/\ run'.cmd = "apply"
        /\ stateFile.exists /\ planFile.exists
        /\ planFile.data = EmptyPlan)
       => (/\ run'.calls = <<>>
           /\ ExitStatus(run'.outcome) = 0
           /\ stateFile' = stateFile)]_vars

\* C4: an apply in which a planned package is not found in the backend ends
\* in an error (non-zero exit) and leaves the persisted state as it was.
C4_NotFoundIsFatal ==
    [][(run'.cmd = "apply" /\ NotFound(run'.calls))
       => (/\ ExitStatus(run'.outcome) # 0
           /\ stateFile' = stateFile)]_vars

\* C5: an apply whose Commit fails ends in an error and leaves the persisted
\* state and the plan as they were, so a later apply reads the same two.
C5_CommitFailureKeepsState ==
    [][(run'.cmd = "apply" /\ Committed(run'.calls, FALSE))
       => (/\ ExitStatus(run'.outcome) # 0
           /\ stateFile' = stateFile
           /\ planFile' = planFile)]_vars

\* a failed Commit of a plan that would have changed the persisted state
C5_Witness ==
    /\ run.cmd = "apply" /\ run.outcome = "exit1"
    /\ Committed(run.calls, FALSE)
    /\ planFile.data.install # <<>>
    /\ planFile.data.remove # <<>>
    /\ stateFile.exists

\* C6: every apply whose Commit succeeds ends with the persisted state
\* overwritten by Patch(previous persisted state, plan).
C6_CommitSuccessFoldsPlan ==
    [][(run'.cmd = "apply" /\ Committed(run'.calls, TRUE))
       => LET new_state == State_patch(stateFile.data, planFile.data)
          IN /\ ~new_state.raised
             /\ run'.outcome = "done"
             /\ stateFile' = File(new_state.list)]_vars

\* C7: an apply that follows a successful apply, with no plan in between,
\* completes successfully and keeps the membership of the persisted state.
C7_ReplayIsIdempotent ==
    [][(/\ run.cmd = "apply" /\ run.outcome = "done"
        /\ Committed(run.calls, TRUE)
        /\ run'.cmd = "apply"
        /\ ~NotFound(run'.calls) /\ ~Committed(run'.calls, FALSE))
       => (/\ run'.outcome = "done"
           /\ SetOf(stateFile'.data) = SetOf(stateFile.data))]_vars

\* C8: init with no persisted state creates the empty snapshot; init with a
\* persisted state succeeds and leaves the state and the plan unchanged.
C8_InitIsIdempotent ==
    [][run'.cmd = "init"
       => (/\ ExitStatus(run'.outcome) = 0
           /\ planFile' = planFile
           /\ IF stateFile.exists
              THEN stateFile' = stateFile
              ELSE stateFile' = File(<<>>))]_vars

\* an init that found a non-empty persisted state
C8_Witness ==
    /\ run.cmd = "init" /\ run.outcome = "exit0"
    /\ stateFile.exists /\ stateFile.data # <<>>

\* C9: plan without a persisted state fails and writes no plan; apply
\* without a persisted state or without a plan fails, makes no backend call
\* and leaves the state unchanged; a backend call is made only by an apply
\* that found both files.
C9_MissingPreconditionIsFatal ==
    [][/\ (run'.cmd = "plan" /\ ~stateFile.exists)
          => (/\ ExitStatus(run'.outcome) # 0
              /\ planFile' = planFile /\ ~planFile'.exists)
       /\ (run'.cmd = "apply" /\ (~stateFile.exists \/ ~planFile.exists))
          => (/\ ExitStatus(run'.outcome) # 0
              /\ run'.calls = <<>>
              /\ stateFile' = stateFile)
       /\ (run'.calls # <<>>)
          => (run'.cmd = "apply" /\ stateFile.exists /\ planFile.exists)
      ]_vars

\* an apply after init and before any plan
C9_Witness ==
    /\ run.cmd = "apply" /\ run.outcome = "exit1"
    /\ stateFile.exists /\ ~planFile.exists

\* C10: Diff(A, A) is empty for every snapshot A, and a plan whose declared
\* state has the members of the persisted state writes an empty plan.
C10_DiffWithSelfIsEmpty ==
    /\ State_diff(declared, declared) = <<>>
    /\ State_diff(stateFile.data, stateFile.data) = <<>>
    /\ (/\ run.cmd = "plan" /\ run.outcome = "done"
        /\ SetOf(declared) = SetOf(stateFile.data))
       => planFile.data = EmptyPlan

\* a plan of a declared state equal to a non-empty persisted state
C10_Witness ==
    /\ run.cmd = "plan" /\ run.outcome = "done"
    /\ declared = stateFile.data
    /\ Len(declared) = MaxDecl
    /\ planFile = File(EmptyPlan)

\* C11: the plan written by plan never names a package in both install and
\* remove.
C11_PlanListsDisjoint ==
    planFile.exists =>
        SetOf(planFile.data.install) \cap SetOf(planFile.data.remove) = {}

\* a plan that installs and removes
C11_Witness ==
    /\ run.cmd = "plan" /\ run.outcome = "done"
    /\ planFile.data.install # <<>>
    /\ planFile.data.remove # <<>>

\* C12: the persisted state never holds a package twice, whatever was
\* declared (repeated entries included) and whatever plan was applied
\* (install entries repeated or already in the state).
C12_StateHasNoDuplicates ==
    NoDup(stateFile.data)

\* an apply of a plan whose install list repeats a package
C12_Witness ==
    /\ run.cmd = "apply" /\ run.outcome = "done"
    /\ planFile.data.install = <<"a", "a">>
    /\ stateFile.data = <<"a">>

\* C13: an apply in which a package is not found never calls Commit: the
\* failed existence check is the last backend call of that run.
C13_NotFoundNeverCommits ==
    (run.cmd = "apply" /\ NotFound(run.calls)) =>
        /\ \A i \in 1..Len(run.calls) : run.calls[i].op # "Commit"
        /\ \A i \in 1..Len(run.calls) :
               (run.calls[i].op = "Exists" /\ ~run.calls[i].ret)
                   => i = Len(run.calls)

\* a package found and marked, then one not found
C13_Witness ==
    /\ run.cmd = "apply"
    /\ NotFound(run.calls)
    /\ \E i \in 1..Len(run.calls) : run.calls[i].op = "MarkInstall"

\* C14: within one apply, checks and marks come first, then at most one
\* Commit, then at most one write of the persisted state; the state is
\* written only after Commit has succeeded.  (An apply writes the state
\* exactly when it ends "done".)
C14_CommitThenWrite ==
    run.cmd = "apply" =>
        /\ Cardinality({i \in 1..Len(run.calls) :
                            run.calls[i].op = "Commit"}) <= 1
        /\ \A i \in 1..Len(run.calls) :
               run.calls[i].op = "Commit" => i = Len(run.calls)
        /\ run.outcome = "done" => Committed(run.calls, TRUE)

C16_PlanListsHaveNoDuplicates ==
    (run.cmd = "plan" /\ run.outcome = "done") =>
        /\ NoDup(planFile.data.install)
        /\ NoDup(planFile.data.remove)
        /\ planFile.data.install =
               SelectSeq(declared,
                         LAMBDA p : p \notin SetOf(stateFile.data))

\* C17: plan leaves the persisted state alone and makes no backend call;
\* apply leaves the plan alone; the plan changes only in a plan step and the
\* state only in an init or apply step.
C17_WhoWritesWhat ==
    [][/\ run'.cmd = "plan" => (stateFile' = stateFile /\ run'.calls = <<>>)
       /\ run'.cmd = "apply" => planFile' = planFile
       /\ planFile' # planFile => run'.cmd = "plan"
       /\ stateFile' # stateFile => run'.cmd \in {"init", "apply"}
      ]_vars

\* a completed apply that changed the state and left its plan in place
C17_Witness ==
    /\ run.cmd = "apply" /\ run.outcome = "done"
    /\ Committed(run.calls, TRUE)
    /\ planFile = File([install |-> <<"b">>, remove |-> <<"c">>])
    /\ stateFile.data = <<"a", "b">>

\* C18: after a successful apply, a plan against the declared state of the
\* plan just applied writes an empty plan.
C18_FixpointInOneRound ==
    [][(/\ run.cmd = "apply" /\ run.outcome = "done"
        /\ Committed(run.calls, TRUE)
        /\ run'.cmd = "plan"
        /\ declared' = declared)
       => planFile' = File(EmptyPlan)]_vars

\* the empty plan over a state that an apply produced
C18_Witness ==
    /\ run.cmd = "plan" /\ run.outcome = "done"
    /\ planFile = File(EmptyPlan)
    /\ declared = <<"a", "b">>
    /\ stateFile.data = <<"a", "b">>

\* C19: for a duplicate-free state and a plan with disjoint install and
\* remove lists whose remove targets are in the state (each named once),
\* Patch returns the state's entries not in remove, in their order, followed
\* by the install entries not in the state, each once, in the order of their
\* first occurrence in install.
FirstIndex(s, x) == CHOOSE i \in 1..Len(s) :
                        s[i] = x /\ \A j \in 1..(i - 1) : s[j] # x

C19_PatchOrder ==
    (/\ out.op = "patch"
     /\ NoDup(inA)
     /\ NoDup(out.plan.remove)
     /\ SetOf(out.plan.install) \cap SetOf(out.plan.remove) = {}
     /\ SetOf(out.plan.remove) \subseteq SetOf(inA))
    => LET r == out.patched.list
           kept == SelectSeq(inA, LAMBDA p : p \notin SetOf(out.plan.remove))
           added == SubSeq(r, Len(kept) + 1, Len(r))
       IN /\ ~out.patched.raised
          /\ Len(r) >= Len(kept)
          /\ SubSeq(r, 1, Len(kept)) = kept
          /\ NoDup(added)
          /\ SetOf(added) = SetOf(out.plan.install) \ SetOf(inA)
          /\ \A i, j \in 1..Len(added) :
                 i < j => FirstIndex(out.plan.install, added[i])
                              < FirstIndex(out.plan.install, added[j])

\* state [a, b], install [a, c], remove [b]: a stays first, c is appended
C19_Witness ==
    /\ out.op = "patch"
    /\ inA = <<"a", "b">>
    /\ out.plan = [install |-> <<"a", "c">>, remove |-> <<"b">>]
    /\ out.patched = Returned(<<"a", "c">>)

====
